---- MODULE Spec2Model ----
(***************************************************************************)
(* Model of sdcflows/workflows/base.py: init_sdc_wf, the heuristic that    *)
(* picks a susceptibility-distortion-correction strategy from a list of    *)
(* fieldmap records and wires the chosen sub-workflows into a workflow.    *)
(*                                                                         *)
(* A fieldmap record (a Python dict) is modelled by its 'type' value, the  *)
(* set of its other keys, and a tag standing for the file paths it holds:  *)
(* the value stored under key k of record r is the pair <<k, r.tag>>.      *)
(* The sub-workflow constructors (init_pepolar_unwarp_wf, init_fmap_wf,    *)
(* init_phdiff_wf, init_sdc_unwarp_wf, init_syn_sdc_wf) are external; a    *)
(* constructed sub-workflow is modelled by its node name.                  *)
(***************************************************************************)
EXTENDS Integers, Sequences, FiniteSets, TLC

\* ------------------------------------------------------------------ bounds
MaxLen == 3        \* longest fmaps list the caller builds
MaxTag == 2        \* distinct file-path tags carried by fieldmap records
MaxCalls == 2      \* calls of init_sdc_wf on the same list object

\* --------------------------------------------------------------- constants
FMAP_PRIORITY ==
  ("epi" :> 0) @@ ("fieldmap" :> 1) @@ ("phasediff" :> 2) @@ ("syn" :> 3)

\* A type tag that is not a key of FMAP_PRIORITY.
UnknownType == "unsupported"

TypeTags == DOMAIN FMAP_PRIORITY \cup {UnknownType}

\* key.startswith("magnitude") over the keys a record may hold
StartsWithMagnitude(key) == key \in {"magnitude", "magnitude1", "magnitude2"}

\* sorted(fmap.items()) orders the items by key; the keys in string order
SortedKeys ==
  <<"epi", "fieldmap", "magnitude", "magnitude1", "magnitude2",
    "metadata.PhaseEncodingDirection", "phasediff">>

\* The key sets of the records the caller hands in, per type.  Every record
\* holds its type's own image; the companion inputs are all there or all
\* missing.
KeySets(type) ==
  CASE type = "epi" ->
         {{"epi", "metadata.PhaseEncodingDirection"}, {"epi"}}
    [] type = "fieldmap" ->
         {{"fieldmap", "magnitude"}, {"fieldmap"}}
    [] type = "phasediff" ->
         {{"phasediff", "magnitude1", "magnitude2"}, {"phasediff"}}
    [] OTHER -> {{}}

\* Records that hold images carry a tag telling their file paths apart; a
\* record that is only {'type': ...} holds none.
Tags(type) == IF KeySets(type) = {{}} THEN {1} ELSE 1..MaxTag

Records ==
  UNION {[type : {t}, keys : KeySets(t), tag : Tags(t)] : t \in TypeTags}

FmapLists == UNION {[1..n -> Records] : n \in 0..MaxLen}

\* fmap[key] for a key the record holds
Val(fmap, key) == <<key, fmap.tag>>

\* ------------------------------------------------------------------ graphs
OutPorts == {"out_warp", "bold_ref", "bold_ref_brain", "bold_mask"}

NoEst == [fieldmap |-> <<>>, phasediff |-> <<>>, magnitude |-> <<>>]

\* The outcome of a call: a returned workflow or a raised exception.
Outcome(kind, exc, arg, name, w) ==
  [kind |-> kind, exc |-> exc, arg |-> arg, name |-> name,
   sdc_method |-> w.sdc_method, built |-> w.built, edges |-> w.edges,
   epi_fmaps |-> w.epi_fmaps, est |-> w.est, fmap |-> w.fmap]

\* The workflow under construction; sdc_unwarp_wf is the local variable of
\* that name ("unbound" until assigned), fmap the local fmaps[0].
EmptyWf ==
  [err |-> "none", arg |-> "none", sdc_method |-> "unset", built |-> {},
   edges |-> {}, epi_fmaps |-> <<>>, est |-> NoEst,
   sdc_unwarp_wf |-> "unbound", fmap |-> <<>>]

NoResult == Outcome("none", "none", "none", "none", EmptyWf)

Raise(w, exc, arg) == [w EXCEPT !.err = exc, !.arg = arg]

\* ------------------------------------------------------ init_sdc_wf, steps
\* Variant: any non-empty list counts as holding a supported fieldmap.
HasSupported_nonempty(fmaps) == Len(fmaps) > 0

\* set([fmap['type'] for fmap in fmaps]).intersection(FMAP_PRIORITY)
HasSupported(fmaps) ==
  {fmaps[i].type : i \in 1..Len(fmaps)} \cap DOMAIN FMAP_PRIORITY # {}

\* No fieldmaps - forward inputs to outputs
BypassEdges ==
  {<<"inputnode", "bold_ref", "outputnode", "bold_ref">>,
   <<"inputnode", "bold_mask", "outputnode", "bold_mask">>,
   <<"inputnode", "bold_ref_brain", "outputnode", "bold_ref_brain">>}

\* lambda fmap: FMAP_PRIORITY[fmap['type']]
SortKey(fmap) == FMAP_PRIORITY[fmap.type]

\* list.sort is stable: an element goes after every element whose key is
\* not greater than its own.
RECURSIVE InsertSorted(_, _)
InsertSorted(sorted, x) ==
  IF sorted = <<>> THEN <<x>>
  ELSE IF SortKey(x) < SortKey(Head(sorted))
       THEN <<x>> \o sorted
       ELSE <<Head(sorted)>> \o InsertSorted(Tail(sorted), x)

RECURSIVE SortInto(_, _)
SortInto(sorted, rest) ==
  IF rest = <<>> THEN sorted
  ELSE SortInto(InsertSorted(sorted, Head(rest)), Tail(rest))

Reverse(s) == [i \in 1..Len(s) |-> s[Len(s) + 1 - i]]

\* Variant: the sort puts the largest key first.
fmaps_sort_descending(fmaps) == Reverse(SortInto(<<>>, fmaps))

\* Variant: an unstable sort, equal keys come out in reverse order.
fmaps_sort_unstable(fmaps) == SortInto(<<>>, Reverse(fmaps))

\* fmaps.sort(key=lambda fmap: FMAP_PRIORITY[fmap['type']])
fmaps_sort(fmaps) == SortInto(<<>>, fmaps)


\* fmap['type'] == 'epi': the PEPOLAR path
PepolarPath(w, fmaps) ==
  IF w.err # "none" \/ w.fmap[1].type # "epi" THEN w
  ELSE
    LET IsEpi(fmap_) == fmap_.type = "epi"
        epis == SelectSeq(fmaps, IsEpi)
        Needed == <<"epi", "metadata.PhaseEncodingDirection">>
        \* the first lookup of the list comprehension that finds no key
        Missing == {<<i, k>> \in (1..Len(epis)) \X (1..2) :
                      Needed[k] \notin epis[i].keys}
        first == CHOOSE m \in Missing :
                   \A n \in Missing :
                     m[1] < n[1] \/ (m[1] = n[1] /\ m[2] <= n[2])
        labelled ==
          [w EXCEPT !.sdc_method =
             "PEB/PEPOLAR (phase-encoding based / PE-POLARity)"]
    IN IF Missing # {} THEN Raise(labelled, "KeyError", Needed[first[2]])
       ELSE [labelled EXCEPT
               !.epi_fmaps =
                  [i \in 1..Len(epis) |->
                     <<Val(epis[i], "epi"),
                       Val(epis[i], "metadata.PhaseEncodingDirection")>>],
               !.built = @ \cup {"pepolar_unwarp_wf"},
               !.sdc_unwarp_wf = "pepolar_unwarp_wf"]

\* [fmap_ for key, fmap_ in sorted(fmap.items()) if key.startswith("magnitude")]
MagnitudeList(fmap) ==
  LET Held(key) == key \in fmap.keys /\ StartsWithMagnitude(key)
      keys == SelectSeq(SortedKeys, Held)
  IN [i \in 1..Len(keys) |-> Val(fmap, keys[i])]

\* workflow.connect of the estimator and the unwarp workflow
FieldmapEdges(estimator) ==
  {<<"inputnode", "name_source", "sdc_unwarp_wf", "inputnode.name_source">>,
   <<estimator, "outputnode.fmap", "sdc_unwarp_wf", "inputnode.fmap">>,
   <<estimator, "outputnode.fmap_ref", "sdc_unwarp_wf", "inputnode.fmap_ref">>,
   <<estimator, "outputnode.fmap_mask", "sdc_unwarp_wf", "inputnode.fmap_mask">>}

\* fmap['type'] in ['fieldmap', 'phasediff']: the FIELDMAP path
FieldmapPath(w) ==
  IF w.err # "none" \/ w.fmap[1].type \notin {"fieldmap", "phasediff"} THEN w
  ELSE
    LET fmap == w.fmap[1]
        labelled ==
          [w EXCEPT !.sdc_method =
             IF fmap.type = "fieldmap" THEN "FMB (fieldmap-based)"
                                       ELSE "FMB (phasediff-based)"]
        estimator == IF fmap.type = "fieldmap" THEN "fmap_wf" ELSE "phdiff_wf"
        withEst == [labelled EXCEPT !.built = @ \cup {estimator}]
        inputs ==
          IF fmap.type = "fieldmap"
          THEN IF "fieldmap" \notin fmap.keys
               THEN Raise(withEst, "KeyError", "fieldmap")
               ELSE IF "magnitude" \notin fmap.keys
               THEN Raise(withEst, "KeyError", "magnitude")
               ELSE [withEst EXCEPT
                       !.est.fieldmap = <<Val(fmap, "fieldmap")>>,
                       !.est.magnitude = <<Val(fmap, "magnitude")>>]
          ELSE IF "phasediff" \notin fmap.keys
               THEN Raise(withEst, "KeyError", "phasediff")
               ELSE [withEst EXCEPT
                       !.est.phasediff = <<Val(fmap, "phasediff")>>,
                       !.est.magnitude = MagnitudeList(fmap)]
    IN IF inputs.err # "none" THEN inputs
       ELSE [inputs EXCEPT
               !.built = @ \cup {"sdc_unwarp_wf"},
               !.sdc_unwarp_wf = "sdc_unwarp_wf",
               !.edges = @ \cup FieldmapEdges(estimator)]

\* Variant: SyN replaces the correction whenever it is in the list.
ForceSynOnly_always(fmaps) == Len(fmaps) >= 1

\* Variant: the test on the list length is inverted.
ForceSynOnly_inverted(fmaps) == Len(fmaps) > 1

\* len(fmaps) == 1:  # --force-syn was called
ForceSynOnly(fmaps) == Len(fmaps) = 1

SynInputEdges ==
  {<<"inputnode", "t1_brain", "syn_sdc_wf", "inputnode.t1_brain">>,
   <<"inputnode", "t1_2_mni_reverse_transform", "syn_sdc_wf",
     "inputnode.t1_2_mni_reverse_transform">>,
   <<"inputnode", "bold_ref_brain", "syn_sdc_wf", "inputnode.bold_ref">>}

SynReportEdge ==
  <<"syn_sdc_wf", "outputnode.out_warp_report", "outputnode", "syn_bold_ref">>

\* fmaps[-1]['type'] == 'syn': the FIELDMAP-less path
SynPath(w, fmaps) ==
  IF w.err # "none" \/ fmaps[Len(fmaps)].type # "syn" THEN w
  ELSE
    LET wired == [w EXCEPT !.built = @ \cup {"syn_sdc_wf"},
                           !.edges = @ \cup SynInputEdges]
    IN IF ForceSynOnly(fmaps)
       THEN [wired EXCEPT
               !.sdc_method = "FLB (\"fieldmap-less\" based) - SyN",
               !.sdc_unwarp_wf = "syn_sdc_wf"]
       ELSE [wired EXCEPT !.edges = @ \cup {SynReportEdge}]

\* the final workflow.connect from sdc_unwarp_wf to outputnode
OutputEdges(node) ==
  {<<node, "outputnode.out_warp", "outputnode", "out_warp">>,
   <<node, "outputnode.out_reference", "outputnode", "bold_ref">>,
   <<node, "outputnode.out_reference_brain", "outputnode", "bold_ref_brain">>,
   <<node, "outputnode.out_mask", "outputnode", "bold_mask">>}

ConnectOutputs(w) ==
  IF w.err # "none" THEN w
  ELSE IF w.sdc_unwarp_wf = "unbound"
  THEN Raise(w, "UnboundLocalError", "sdc_unwarp_wf")
  ELSE [w EXCEPT !.edges = @ \cup OutputEdges(w.sdc_unwarp_wf)]

\* The whole function: the list object as the call leaves it, and the
\* returned workflow or the raised exception.
init_sdc_wf(fmaps) ==
  IF ~HasSupported(fmaps)
  THEN [fmaps |-> fmaps,
        result |-> Outcome("graph", "none", "none", "sdc_bypass_wf",
                           [EmptyWf EXCEPT !.edges = BypassEdges])]
  ELSE
    LET Unknown == {i \in 1..Len(fmaps) : fmaps[i].type \notin DOMAIN FMAP_PRIORITY}
    IN IF Unknown # {}
       \* the key function raises before the list is reordered
       THEN [fmaps |-> fmaps,
             result |-> Outcome("error", "KeyError", UnknownType, "none", EmptyWf)]
       ELSE
         LET sorted == fmaps_sort(fmaps)
             w0 == [EmptyWf EXCEPT !.fmap = <<sorted[1]>>]
             w == ConnectOutputs(SynPath(FieldmapPath(PepolarPath(w0, sorted)),
                                         sorted))
         IN [fmaps |-> sorted,
             result |-> IF w.err = "none"
                        THEN Outcome("graph", "none", "none", "sdc_wf", w)
                        ELSE Outcome("error", w.err, w.arg, "none",
                                     [EmptyWf EXCEPT !.fmap = w.fmap])]

\* ------------------------------------------------------------------- state
VARIABLES
  fmaps,    \* the caller's list object, as it currently is
  orig,     \* the list as the caller built it
  opts,     \* the caller's --use-syn / --force-syn options
  result,   \* outcome of the latest call
  prev,     \* outcome of the call before it
  calls     \* calls made on this list object

vars == <<fmaps, orig, opts, result, prev, calls>>

Options == [use_syn : BOOLEAN, force_syn : BOOLEAN]

Init ==
  /\ fmaps \in FmapLists
  /\ orig = fmaps
  /\ opts \in Options
  /\ result = NoResult
  /\ prev = NoResult
  /\ calls = 0

\* A call init_sdc_wf(fmaps, bold_meta, ...) on the caller's list object.
\* The signature has no use_syn / force_syn parameter: opts is not read.
Call ==
  /\ calls < MaxCalls
  /\ LET out == init_sdc_wf(fmaps)
     IN /\ fmaps' = out.fmaps
        /\ result' = out.result
  /\ prev' = result
  /\ calls' = calls + 1
  /\ UNCHANGED <<orig, opts>>

Next == Call

Spec == Init /\ [][Next]_vars


\* ------------------------------------------------------------ vocabulary
Called == calls >= 1

AllKnown(l) == \A i \in 1..Len(l) : l[i].type \in DOMAIN FMAP_PRIORITY

IsKnown(fmap) == fmap.type \in DOMAIN FMAP_PRIORITY

\* the list without the records of unrecognized type
Filtered(l) == SelectSeq(l, IsKnown)

\* position of the first record of least priority rank
FirstMinIndex(l) ==
  CHOOSE i \in 1..Len(l) :
    /\ \A j \in 1..Len(l) : FMAP_PRIORITY[l[i].type] <= FMAP_PRIORITY[l[j].type]
    /\ \A j \in 1..(i - 1) : FMAP_PRIORITY[l[j].type] > FMAP_PRIORITY[l[i].type]

Best(l) == l[FirstMinIndex(l)]

\* the sub-workflow that corrects with a strategy of the given type
StrategyNode(type) ==
  CASE type = "epi" -> "pepolar_unwarp_wf"
    [] type \in {"fieldmap", "phasediff"} -> "sdc_unwarp_wf"
    [] type = "syn" -> "syn_sdc_wf"

\* the nodes wired to a port of the outer outputnode
Sources(port) ==
  {e[1] : e \in {d \in result.edges : d[3] = "outputnode" /\ d[4] = port}}

\* the images of the chosen record are the ones handed to its estimator
BuiltFrom(best) ==
  CASE best.type = "epi" ->
         /\ result.epi_fmaps # <<>>
         /\ result.epi_fmaps[1] =
              <<Val(best, "epi"), Val(best, "metadata.PhaseEncodingDirection")>>
    [] best.type = "fieldmap" -> result.est.fieldmap = <<Val(best, "fieldmap")>>
    [] best.type = "phasediff" -> result.est.phasediff = <<Val(best, "phasediff")>>
    [] OTHER -> TRUE

HasMagnitude(fmap) == \E k \in fmap.keys : StartsWithMagnitude(k)

\* a record that carries the inputs its type requires
WellFormed(fmap) ==
  CASE fmap.type = "epi" ->
         {"epi", "metadata.PhaseEncodingDirection"} \subseteq fmap.keys
    [] fmap.type = "fieldmap" -> {"fieldmap", "magnitude"} \subseteq fmap.keys
    [] fmap.type = "phasediff" ->
         "phasediff" \in fmap.keys /\ HasMagnitude(fmap)
    [] OTHER -> TRUE

\* ------------------------------------------------------------------ claims

\* C1: for a non-empty list whose type tags are all in FMAP_PRIORITY, the
\* record the call selects is the first one of least priority rank in the
\* caller's original order, and in the workflow it returns the outer
\* out_warp, bold_ref, bold_ref_brain and bold_mask are fed by the
\* sub-workflow of that record's type, built from that record's images.
C1_PrimaryIsFirstMinimum ==
  (Called /\ orig # <<>> /\ AllKnown(orig)) =>
     /\ result.fmap = <<Best(orig)>>
     /\ result.kind = "graph" =>
          /\ \A p \in OutPorts : Sources(p) = {StrategyNode(Best(orig).type)}
          /\ BuiltFrom(Best(orig))

C1_Witness ==
  /\ Called /\ AllKnown(orig) /\ Len(orig) = 3
  /\ result.kind = "graph"
  /\ FirstMinIndex(orig) = 2
  /\ orig[3].type = orig[2].type /\ orig[3].tag # orig[2].tag

\* C2: records of unrecognized type are discarded silently: the call raises
\* no error for the unrecognized tag and its outcome is the outcome for the
\* same list without those records.
C2_UnknownDiscarded ==
  Called =>
     /\ ~(result.kind = "error" /\ result.exc = "KeyError"
            /\ result.arg = UnknownType)
     /\ result = init_sdc_wf(Filtered(orig)).result

\* C3: an empty list, or one of unrecognized types only, gives the bypass
\* workflow: exactly the three edges inputnode -> outputnode for bold_ref,
\* bold_mask and bold_ref_brain, nothing on out_warp or syn_bold_ref, no
\* sub-workflow built.
C3_Passthrough ==
  (Called /\ Filtered(orig) = <<>>) =>
     /\ result.kind = "graph"
     /\ result.name = "sdc_bypass_wf"
     /\ result.edges =
          {<<"inputnode", "bold_ref", "outputnode", "bold_ref">>,
           <<"inputnode", "bold_mask", "outputnode", "bold_mask">>,
           <<"inputnode", "bold_ref_brain", "outputnode", "bold_ref_brain">>}
     /\ Sources("out_warp") = {} /\ Sources("syn_bold_ref") = {}
     /\ result.built = {}
     /\ result.sdc_method = "unset"

C3_Witness ==
  /\ Called /\ Len(orig) >= 2 /\ Filtered(orig) = <<>>
  /\ result.name = "sdc_bypass_wf"

\* C4: in every workflow returned for a list holding a syn record together
\* with an epi, fieldmap or phasediff record, syn_bold_ref is fed by the
\* SyN sub-workflow's out_warp_report and nothing else, and each of
\* out_warp, bold_ref, bold_ref_brain and bold_mask is fed only by the
\* sub-workflow of the highest-priority record, never by the SyN one.
C4_FallbackAddedNotSubstituted ==
  (/\ Called /\ result.kind = "graph"
   /\ \E i \in 1..Len(orig) : orig[i].type = "syn"
   /\ \E i \in 1..Len(orig) : orig[i].type \in {"epi", "fieldmap", "phasediff"})
  =>
     /\ {e \in result.edges : e[3] = "outputnode" /\ e[4] = "syn_bold_ref"} =
          {<<"syn_sdc_wf", "outputnode.out_warp_report",
             "outputnode", "syn_bold_ref">>}
     /\ \A p \in OutPorts :
          /\ Sources(p) = {StrategyNode(Best(orig).type)}
          /\ "syn_sdc_wf" \notin Sources(p)

C4_Witness ==
  /\ Called /\ result.kind = "graph"
  /\ Len(orig) >= 2 /\ orig[1].type = "syn"
  /\ \E i \in 1..Len(orig) : orig[i].type = "phasediff"
  /\ "syn_sdc_wf" \in result.built

\* C5: when a syn record is the only record of the list, the SyN
\* sub-workflow is the only one built, its out_warp, out_reference,
\* out_reference_brain and out_mask feed the outer out_warp, bold_ref,
\* bold_ref_brain and bold_mask, syn_bold_ref is left unconnected, and the
\* method label is the fieldmap-less one.
C5_FallbackOnly ==
  (Called /\ Len(orig) = 1 /\ orig[1].type = "syn") =>
     /\ result.kind = "graph"
     /\ result.built = {"syn_sdc_wf"}
     /\ {e \in result.edges : e[3] = "outputnode"} =
          {<<"syn_sdc_wf", "outputnode.out_warp", "outputnode", "out_warp">>,
           <<"syn_sdc_wf", "outputnode.out_reference", "outputnode", "bold_ref">>,
           <<"syn_sdc_wf", "outputnode.out_reference_brain",
             "outputnode", "bold_ref_brain">>,
           <<"syn_sdc_wf", "outputnode.out_mask", "outputnode", "bold_mask">>}
     /\ Sources("syn_bold_ref") = {}
     /\ result.sdc_method = "FLB (\"fieldmap-less\" based) - SyN"

C5_Witness ==
  /\ Called /\ Len(orig) = 1 /\ orig[1].type = "syn"
  /\ Sources("out_warp") = {"syn_sdc_wf"}

\* C6: when no record of recognized type is left and use_syn or force_syn
\* is set, the SyN sub-workflow is the correction path; the bypass workflow
\* is produced for such a list only when both options are off.
C6_FallbackWhenAllowed ==
  (Called /\ Filtered(orig) = <<>>) =>
     IF opts.use_syn \/ opts.force_syn
     THEN /\ result.kind = "graph"
          /\ result.built = {"syn_sdc_wf"}
          /\ \A p \in OutPorts : Sources(p) = {"syn_sdc_wf"}
     ELSE result.name = "sdc_bypass_wf"

\* C7: when the selected record is a phasediff one with no key starting
\* with 'magnitude', the call fails with a MissingInputError and returns
\* no workflow.
C7_MissingInputError ==
  (/\ Called /\ orig # <<>> /\ AllKnown(orig)
   /\ Best(orig).type = "phasediff" /\ ~HasMagnitude(Best(orig)))
  => (result.kind = "error" /\ result.exc = "MissingInputError")

\* C8: a call leaves the caller's list with the same records in the same
\* order as the caller built it.
C8_InputsNotMutated == fmaps = orig

\* C9: a second call with the same list object gives the same outcome as
\* the first: same name, sub-workflows, edges, method label and ordered
\* (epi, PhaseEncodingDirection) pairs.
C9_Idempotent == calls >= 2 => result = prev

C9_Witness ==
  /\ calls = 2 /\ result.kind = "graph"
  /\ fmaps # orig
  /\ Len(result.epi_fmaps) >= 2
  /\ result.epi_fmaps[1] # result.epi_fmaps[2]

\* C10: for every non-empty list of recognized, well-formed records the
\* call returns a workflow in which each of out_warp, bold_ref,
\* bold_ref_brain and bold_mask is fed by exactly one sub-workflow.
C10_Total ==
  (/\ Called /\ orig # <<>> /\ AllKnown(orig)
   /\ \A i \in 1..Len(orig) : WellFormed(orig[i]))
  => /\ result.kind = "graph"
     /\ \A p \in OutPorts : Cardinality(Sources(p)) = 1

====
